---- MODULE Spec2Model ----
(***************************************************************************)
(* A model of telegram_translator_bot.py: the sentence splitter, the       *)
(* context-aware chunker, the per-chunk translation loop and the inline    *)
(* button handlers with their cache.                                       *)
(*                                                                         *)
(* A Python str is a sequence of one-character strings.  The alphabet is   *)
(* one representative per character class the code distinguishes:          *)
(*   "a"  a lower-case ASCII letter   ([a-z], \w)                          *)
(*   "A"  an upper-case ASCII letter  ([A-Z], \w)                          *)
(*   "."  a sentence terminator       ([.!?], the one the look-behinds     *)
(*        name)                                                            *)
(*   " "  a space, "\n" a newline     (\s, what str.strip() removes)       *)
(*   "c"  a lower-case Cyrillic letter, "C" an upper-case one              *)
(*        (UA_CYRILLIC_RE, \w, not [a-z] or [A-Z])                         *)
(*   "/"  the slash that starts a command                                  *)
(* Callback data also holds "_", digits and the letters of its words.      *)
(***************************************************************************)
EXTENDS Integers, Sequences, FiniteSets, TLC

\* ------------------------------------------------------------ bounds
\* Longest input text explored by the chunker specification.
MaxLen == 6
\* Largest chunk_size argument explored.
MaxChunk == 4
\* Largest overlap argument explored.
MaxOverlap == 3

\* ------------------------------------------------------------ characters
Whitespace == {" ", "\n"}
Terminators == {"."}
UpperAscii == {"A"}
LowerAscii == {"a"}
\* UA_CYRILLIC_RE
Cyrillic == {"c", "C"}
\* [A-ZА-ЯІЇЄҐ] of the split pattern's look-ahead
UpperLetters == UpperAscii \cup {"C"}
\* \w
WordChars == UpperAscii \cup LowerAscii \cup Cyrillic
\* the characters the explored texts are made of
Alphabet == UpperAscii \cup LowerAscii \cup Terminators \cup Whitespace

\* ------------------------------------------------------------ str helpers
RECURSIVE lstrip(_)
lstrip(s) ==
  IF s # <<>> /\ Head(s) \in Whitespace THEN lstrip(Tail(s)) ELSE s

RECURSIVE rstrip(_)
rstrip(s) ==
  IF s # <<>> /\ s[Len(s)] \in Whitespace
  THEN rstrip(SubSeq(s, 1, Len(s) - 1)) ELSE s

\* str.strip()
strip(s) == rstrip(lstrip(s))

\* str.endswith(' ')
EndsWithSpace(s) == s # <<>> /\ s[Len(s)] = " "

\* ------------------------------------------------------------ enhanced_sentence_split
\* (?<!\w\.\w.) at position p (the 1-based index of the first character
\* of the candidate match): the four characters before p.
LookbehindAbbrev(t, p) ==
  /\ p >= 5
  /\ t[p-4] \in WordChars
  /\ t[p-3] = "."
  /\ t[p-2] \in WordChars

\* (?<![A-Z][a-z]\.) at position p.
LookbehindTitle(t, p) ==
  /\ p >= 4
  /\ t[p-3] \in UpperAscii
  /\ t[p-2] \in LowerAscii
  /\ t[p-1] = "."

\* The last index of the white-space run that starts at p.
RECURSIVE RunEnd(_, _)
RunEnd(t, p) ==
  IF p < Len(t) /\ t[p+1] \in Whitespace THEN RunEnd(t, p + 1) ELSE p

\* sentence_pattern matches at p: \s+ preceded by [.!?], followed by an
\* upper-case letter, with neither look-behind matching.  \s+ is greedy
\* and the look-ahead wants a letter, so a match is a whole run; a match
\* cannot start inside a run because (?<=[.!?]) must hold just before it.
MatchesAt(t, p) ==
  /\ p >= 2 /\ p <= Len(t)
  /\ t[p] \in Whitespace
  /\ t[p-1] \in Terminators
  /\ ~LookbehindAbbrev(t, p)
  /\ ~LookbehindTitle(t, p)
  /\ RunEnd(t, p) < Len(t)
  /\ t[RunEnd(t, p) + 1] \in UpperLetters

\* re.split(sentence_pattern, t) from index s on.
RECURSIVE SplitFrom(_, _)
SplitFrom(t, s) ==
  LET ms == {p \in s..Len(t) : MatchesAt(t, p)}
  IN IF ms = {} THEN <<SubSeq(t, s, Len(t))>>
     ELSE LET p == CHOOSE x \in ms : \A y \in ms : x <= y
          IN <<SubSeq(t, s, p - 1)>> \o SplitFrom(t, RunEnd(t, p) + 1)

\* the clean-up loop: strip each piece, keep those longer than one character
RECURSIVE CleanSentences(_)
CleanSentences(ss) ==
  IF ss = <<>> THEN <<>>
  ELSE LET sentence == strip(Head(ss))
       IN (IF Len(sentence) > 1 THEN <<sentence>> ELSE <<>>)
            \o CleanSentences(Tail(ss))

enhanced_sentence_split(t) ==
  LET cleaned_sentences == CleanSentences(SplitFrom(strip(t), 1))
  IN IF cleaned_sentences # <<>> THEN cleaned_sentences ELSE <<t>>

\* ------------------------------------------------------------ create_context_aware_chunks
\* BuildOverlap with the loop test reading the overlap gathered so far
\* instead of the overlap with sentences[j] added.
RECURSIVE BuildOverlapTestsBeforeAdding(_, _, _, _)
BuildOverlapTestsBeforeAdding(ss, j, temp, ov) ==
  IF j >= 0 /\ Len(temp) <= ov
  THEN BuildOverlapTestsBeforeAdding(ss, j - 1, ss[j+1] \o <<" ">> \o temp, ov)
  ELSE temp

\* The backwards loop that builds temp_overlap; j is Python's 0-based index.
RECURSIVE BuildOverlap(_, _, _, _)
BuildOverlap(ss, j, temp, ov) ==
  IF j >= 0 /\ Len(temp \o <<" ">> \o ss[j+1]) <= ov
  THEN BuildOverlap(ss, j - 1, ss[j+1] \o <<" ">> \o temp, ov)
  ELSE temp

\* ExceedsChunkSize without the test that current_chunk holds something.
ExceedsChunkSizeAlone(potential_chunk, current_chunk, cs) ==
  Len(potential_chunk) > cs

\* len(potential_chunk) > chunk_size and current_chunk
ExceedsChunkSize(potential_chunk, current_chunk, cs) ==
  Len(potential_chunk) > cs /\ current_chunk # <<>>

\* One iteration of the while loop over a loop state
\* [i, current_chunk, chunks, temp_overlap, flushed].  temp_overlap keeps the
\* value of the last flush; flushed tells whether this iteration took the
\* "exceeds chunk size" branch.
ChunkStep(st, ss, cs, ov) ==
  LET sentence == ss[st.i + 1]
      cur == st.current_chunk
      potential_chunk ==
        (IF cur # <<>> /\ ~EndsWithSpace(cur) THEN cur \o <<" ">> ELSE cur)
          \o sentence
  IN IF ExceedsChunkSize(potential_chunk, cur, cs)
     THEN LET temp == BuildOverlap(ss, st.i - 1, <<>>, ov)
          IN [i |-> st.i + 1,
              current_chunk |->
                IF strip(temp) # <<>>
                THEN strip(temp) \o <<" ">> \o sentence
                ELSE sentence,
              chunks |-> Append(st.chunks, strip(cur)),
              temp_overlap |-> temp,
              flushed |-> TRUE]
     ELSE [i |-> st.i + 1,
           current_chunk |->
             IF cur # <<>> THEN cur \o <<" ">> \o sentence ELSE sentence,
           chunks |-> st.chunks,
           temp_overlap |-> st.temp_overlap,
           flushed |-> FALSE]

\* The state before the first iteration.
ChunkStart ==
  [i |-> 0, current_chunk |-> <<>>, chunks |-> <<>>,
   temp_overlap |-> <<>>, flushed |-> FALSE]

\* ChunkReturn without the final chunk.
ChunkReturnWithoutFinalChunk(st, t) ==
  IF st.chunks # <<>> THEN st.chunks ELSE <<t>>

\* What follows the loop: the final chunk, and the never-empty guarantee.
ChunkReturn(st, t) ==
  LET chunks == IF strip(st.current_chunk) # <<>>
                THEN Append(st.chunks, strip(st.current_chunk))
                ELSE st.chunks
  IN IF chunks # <<>> THEN chunks ELSE <<t>>

RECURSIVE ChunkLoop(_, _, _, _)
ChunkLoop(st, ss, cs, ov) ==
  IF st.i < Len(ss) THEN ChunkLoop(ChunkStep(st, ss, cs, ov), ss, cs, ov)
  ELSE st

\* ShortText returning the text without the white space around it.
ShortTextStripped(t) == <<strip(t)>>

\* What is returned for a text no longer than chunk_size.
ShortText(t) == <<t>>

create_context_aware_chunks(t, cs, ov) ==
  IF Len(t) <= cs THEN ShortText(t)
  ELSE LET ss == enhanced_sentence_split(t)
       IN IF ss = <<>> THEN <<t>>
          ELSE ChunkReturn(ChunkLoop(ChunkStart, ss, cs, ov), t)

\* ------------------------------------------------------------ constants of the program
\* TRANSLATE_CHUNK_SIZE (1500 in the source), scaled to the model's texts.
TRANSLATE_CHUNK_SIZE == 4
\* CONTEXT_OVERLAP (200 in the source), scaled alike: smaller than the
\* chunk size, large enough to hold a short sentence.
CONTEXT_OVERLAP == 3
\* MIN_TRANSLATE_LENGTH (10 in the source), scaled alike.
MIN_TRANSLATE_LENGTH == 3

\* ------------------------------------------------------------ the translation backend
\* What one GoogleTranslator.translate call can do: raise, return nothing
\* (None, '' or white space), or return the translation.
Outcomes == {"raise", "empty", "translated"}

\* The translation of a text from source to target: the letters of the
\* source language become letters of the target language, everything else
\* (punctuation, spacing, letters already in the target language) is kept.
Backend(s, source, target) ==
  [k \in 1..Len(s) |->
     CASE source = "en" /\ target = "uk" /\ s[k] = "a" -> "c"
       [] source = "en" /\ target = "uk" /\ s[k] = "A" -> "C"
       [] source = "uk" /\ target = "en" /\ s[k] = "c" -> "a"
       [] source = "uk" /\ target = "en" /\ s[k] = "C" -> "A"
       [] OTHER -> s[k]]

\* re.sub(r'\s+', ' ', s)
RECURSIVE CollapseSpaces(_)
CollapseSpaces(s) ==
  IF s = <<>> THEN <<>>
  ELSE IF Head(s) \in Whitespace
       THEN <<" ">> \o CollapseSpaces(lstrip(s))
       ELSE <<Head(s)>> \o CollapseSpaces(Tail(s))

\* re.sub(r'\s+([.!?,:;])', r'\1', s)
RECURSIVE RemoveSpaceBeforePunctuation(_)
RemoveSpaceBeforePunctuation(s) ==
  IF s = <<>> THEN <<>>
  ELSE IF Head(s) \in Whitespace
            /\ lstrip(s) # <<>> /\ Head(lstrip(s)) \in Terminators
       THEN RemoveSpaceBeforePunctuation(lstrip(s))
       ELSE <<Head(s)>> \o RemoveSpaceBeforePunctuation(Tail(s))

\* What the translator returns for a chunk, when it returns.
TranslatorResult(chunk, outcome, source, target) ==
  IF outcome = "translated" THEN Backend(strip(chunk), source, target)
  ELSE <<>>

\* ------------------------------------------------------------ enhanced_translate_with_context
\* ChunkOutcome appending the translator's (empty) result where the code
\* appends the chunk.
ChunkOutcomeKeepsEmptyResult(chunk, outcome, source, target) ==
  IF outcome = "raise" THEN chunk
  ELSE RemoveSpaceBeforePunctuation(
         CollapseSpaces(strip(TranslatorResult(chunk, outcome, source, target))))

\* What one iteration appends to translated_chunks.
ChunkOutcome(chunk, outcome, source, target) ==
  IF outcome = "raise" THEN chunk
  ELSE LET r == TranslatorResult(chunk, outcome, source, target)
       IN IF r # <<>> /\ strip(r) # <<>>
          THEN RemoveSpaceBeforePunctuation(CollapseSpaces(strip(r)))
          ELSE chunk

\* RecordOutcome trying the same chunk again after an exception.
RecordOutcomeRetries(st, outcome) ==
  IF outcome = "raise"
  THEN [st EXCEPT !.pc = "loop"]
  ELSE [st EXCEPT !.pc = "loop",
                  !.i = st.i + 1,
                  !.translated_chunks =
                    Append(@, ChunkOutcome(st.chunks[st.i + 1], outcome,
                                           st.source, st.target))]

\* The rest of an iteration once the translate call is over: the outcome
\* is appended and the for loop moves on.
RecordOutcome(st, outcome) ==
  [st EXCEPT !.pc = "loop",
             !.i = st.i + 1,
             !.translated_chunks =
               Append(@, ChunkOutcome(st.chunks[st.i + 1], outcome,
                                           st.source, st.target))]

\* "Intelligent chunk joining": both branches of the inner test add a space.
RECURSIVE JoinChunks(_)
JoinChunks(tc) ==
  IF tc = <<>> THEN <<>>
  ELSE IF Len(tc) = 1 THEN tc[1]
  ELSE JoinChunks(SubSeq(tc, 1, Len(tc) - 1)) \o <<" ">> \o tc[Len(tc)]

\* The final clean-up and the return value.
FinalTranslation(tc, t) ==
  LET final_translation == strip(CollapseSpaces(JoinChunks(tc)))
  IN IF final_translation # <<>> THEN final_translation ELSE t

\* The whole call for a given outcome of each translate call (outs[k] is
\* the outcome of the call for the k-th chunk).
RECURSIVE TranslatedChunks(_, _, _, _)
TranslatedChunks(chunks, outs, source, target) ==
  IF chunks = <<>> THEN <<>>
  ELSE (IF strip(Head(chunks)) = <<>> THEN <<>>
        ELSE <<ChunkOutcome(Head(chunks), Head(outs), source, target)>>)
         \o TranslatedChunks(Tail(chunks), Tail(outs), source, target)

enhanced_translate_with_context(t, source, target, outs) ==
  FinalTranslation(
    TranslatedChunks(
      create_context_aware_chunks(t, TRANSLATE_CHUNK_SIZE, CONTEXT_OVERLAP),
      outs, source, target),
    t)

\* ------------------------------------------------------------ should_add_translate_button
\* [a-zA-Zа-яА-ЯіІїЇєЄґҐ]
Letters == UpperAscii \cup LowerAscii \cup Cyrillic

LetterCount(s) == Cardinality({k \in 1..Len(s) : s[k] \in Letters})

StartsWithSlash(s) == s # <<>> /\ s[1] = "/"

\* letter_count < len(text.strip()) * 0.3, in tenths
should_add_translate_button(t) ==
  /\ t # <<>>
  /\ Len(strip(t)) >= MIN_TRANSLATE_LENGTH
  /\ ~StartsWithSlash(strip(t))
  /\ ~(10 * LetterCount(t) < 3 * Len(strip(t)))

\* ------------------------------------------------------------ modes and directions
MODE_AUTO == <<"a", "u", "t", "o">>
MODE_TO_UK == <<"t", "o", "_", "u", "k">>
MODE_TO_EN == <<"t", "o", "_", "e", "n">>

\* UA_CYRILLIC_RE.search(text)
detect_direction(t) ==
  IF \E k \in 1..Len(t) : t[k] \in Cyrillic THEN MODE_TO_EN ELSE MODE_TO_UK

\* the source and target language of a direction (the flag and the
\* description are display only)
get_language_info(direction) ==
  IF direction = MODE_TO_EN
  THEN [source |-> "uk", target |-> "en"]
  ELSE [source |-> "en", target |-> "uk"]

\* ------------------------------------------------------------ callback data
DigitChars == <<"0", "1", "2", "3", "4", "5", "6", "7", "8", "9">>

DigitValue(c) == (CHOOSE k \in 1..10 : DigitChars[k] = c) - 1

IsDigit(c) == \E k \in 1..10 : DigitChars[k] = c

\* str(n) of a non-negative int
RECURSIVE IntToStr(_)
IntToStr(n) ==
  IF n < 10 THEN <<DigitChars[n + 1]>>
  ELSE IntToStr(n \div 10) \o <<DigitChars[(n % 10) + 1]>>

\* int(s); -1 stands for the ValueError
RECURSIVE StrToInt(_)
StrToInt(s) ==
  IF s = <<>> \/ \E k \in 1..Len(s) : ~IsDigit(s[k]) THEN -1
  ELSE IF Len(s) = 1 THEN DigitValue(s[1])
  ELSE 10 * StrToInt(SubSeq(s, 1, Len(s) - 1)) + DigitValue(s[Len(s)])

\* s.split("_")
RECURSIVE Split(_)
Split(s) ==
  LET us == {k \in 1..Len(s) : s[k] = "_"}
  IN IF us = {} THEN <<s>>
     ELSE LET k == CHOOSE x \in us : \A y \in us : x <= y
          IN <<SubSeq(s, 1, k - 1)>> \o Split(SubSeq(s, k + 1, Len(s)))

\* s.startswith(prefix)
StartsWith(s, prefix) ==
  Len(prefix) <= Len(s) /\ SubSeq(s, 1, Len(prefix)) = prefix

TranslatePrefix == <<"t", "r", "a", "n", "s", "l", "a", "t", "e", "_">>
ShowOriginalPrefix ==
  <<"s", "h", "o", "w", "_", "o", "r", "i", "g", "i", "n", "a", "l", "_">>
ShowTranslationPrefix ==
  <<"s", "h", "o", "w", "_", "t", "r", "a", "n", "s", "l", "a", "t", "i", "o", "n", "_">>

\* MAX_BUTTON_TEXT_LENGTH (100 in the source), scaled to the model's texts.
MAX_BUTTON_TEXT_LENGTH == 6

truncate_for_button(t) ==
  IF Len(t) <= MAX_BUTTON_TEXT_LENGTH THEN t
  ELSE SubSeq(t, 1, MAX_BUTTON_TEXT_LENGTH - 3) \o <<".", ".", ".">>

\* A keyboard of one button: its kind (the label's emoji), the text it
\* shows and its callback data.
create_translate_button(message_id, direction) ==
  [label |-> "translate",
   display_text |-> <<>>,
   callback_data |->
     TranslatePrefix \o IntToStr(message_id) \o <<"_">> \o direction]

create_translated_button(original_text, translated_text, message_id, direction) ==
  [label |-> "translated",
   display_text |-> truncate_for_button(translated_text),
   callback_data |->
     ShowOriginalPrefix \o IntToStr(message_id) \o <<"_">> \o direction]

create_original_button(original_text, message_id, direction) ==
  [label |-> "original",
   display_text |-> truncate_for_button(original_text),
   callback_data |->
     ShowTranslationPrefix \o IntToStr(message_id) \o <<"_">> \o direction]

\* How handle_translate_callback reads its callback data: "invalid" is the
\* "Invalid request" return, "error" the ValueError of int().
TranslateRequest(callback_data) ==
  LET parts == Split(callback_data)
  IN IF Len(parts) # 3
     THEN [status |-> "invalid", message_id |-> -1, direction |-> <<>>]
     ELSE IF StrToInt(parts[2]) < 0
     THEN [status |-> "error", message_id |-> -1, direction |-> <<>>]
     ELSE [status |-> "ok", message_id |-> StrToInt(parts[2]),
           direction |-> parts[3]]

\* How the two show handlers read theirs: "ignored" is the silent return.
ShowRequest(callback_data) ==
  LET parts == Split(callback_data)
  IN IF Len(parts) # 4
     THEN [status |-> "ignored", message_id |-> -1, direction |-> <<>>]
     ELSE IF StrToInt(parts[3]) < 0
     THEN [status |-> "error", message_id |-> -1, direction |-> <<>>]
     ELSE [status |-> "ok", message_id |-> StrToInt(parts[3]),
           direction |-> parts[4]]

\* ------------------------------------------------------------ state
VARIABLES
  text,          \* create_context_aware_chunks: the text argument
  chunk_size,    \* the chunk_size argument
  overlap,       \* the overlap argument
  sentences,     \* the local sentences
  loop,          \* the locals of the while loop (see ChunkStep)
  result,        \* the returned list
  cpc,           \* where the call is: "compose", "loop", "done"
  tr,            \* enhanced_translate_with_context: its locals and where it is
  calls,         \* the translate calls made so far: [index, arg]
  outcomes,      \* what each of them did
  chat_modes,    \* the dict chat_modes: chat id -> mode
  message_cache, \* the dict message_cache: <<chat id, message id>> -> entry
  markup,        \* the keyboard on the bot's reply to each cached message
  next_id,       \* the id the next message of each chat gets
  tasks          \* the handle_translate_callback invocations awaiting their
                 \* translation

chunkVars == <<text, chunk_size, overlap, sentences, loop, result, cpc>>
trVars == <<tr, calls, outcomes>>
botVars == <<chat_modes, message_cache, markup, next_id, tasks>>
vars == <<chunkVars, trVars, botVars>>

\* ------------------------------------------------------------ the chunker, step by step
ChunkIdle ==
  /\ text = <<>>
  /\ chunk_size = 0
  /\ overlap = 0
  /\ sentences = <<>>
  /\ loop = ChunkStart
  /\ result = <<>>
  /\ cpc = "compose"

TranslateIdle ==
  /\ tr = [pc |-> "idle", text |-> <<>>, source |-> "en", target |-> "uk",
           chunks |-> <<>>, i |-> 0,
           translated_chunks |-> <<>>, final_translation |-> <<>>]
  /\ calls = <<>>
  /\ outcomes = <<>>

\* the chats the bot is in
Chats == {1, 2}

\* an empty dict
EmptyDict == [k \in {} |-> <<>>]

BotIdle ==
  /\ chat_modes = EmptyDict
  /\ message_cache = EmptyDict
  /\ markup = EmptyDict
  /\ next_id = [c \in Chats |-> 1]
  /\ tasks = <<>>

ChunkInit == ChunkIdle /\ TranslateIdle /\ BotIdle

\* The caller's text grows by one character.
AppendChar ==
  /\ cpc = "compose"
  /\ Len(text) < MaxLen
  /\ \E c \in Alphabet : text' = Append(text, c)
  /\ UNCHANGED <<chunk_size, overlap, sentences, loop, result, cpc, trVars, botVars>>

\* Texts longer than MaxLen that the caller can pass as well: three
\* sentences of which the last is found again inside the first, without
\* and with white space around the text.
LongTexts ==
  { <<"A", "A", ".", " ", "C", ".", " ", "A", "A">>,
    <<" ", "A", "A", ".", " ", "C", ".", " ", "A", "A", "\n">> }

\* The caller passes one of the long texts.
ComposeLongText ==
  /\ cpc = "compose"
  /\ text = <<>>
  /\ \E t \in LongTexts : text' = t
  /\ UNCHANGED <<chunk_size, overlap, sentences, loop, result, cpc, trVars, botVars>>

\* The call, up to the loop: the short-text return and the split.
ChunkCall ==
  /\ cpc = "compose"
  /\ \E cs \in 1..MaxChunk, ov \in 0..MaxOverlap :
       /\ chunk_size' = cs
       /\ overlap' = ov
       /\ IF Len(text) <= cs
          THEN /\ result' = ShortText(text)
               /\ cpc' = "done"
               /\ UNCHANGED sentences
          ELSE /\ sentences' = enhanced_sentence_split(text)
               /\ cpc' = "loop"
               /\ UNCHANGED result
  /\ UNCHANGED <<text, loop, trVars, botVars>>

\* One iteration of the while loop.
ChunkIterate ==
  /\ cpc = "loop"
  /\ loop.i < Len(sentences)
  /\ loop' = ChunkStep(loop, sentences, chunk_size, overlap)
  /\ UNCHANGED <<text, chunk_size, overlap, sentences, result, cpc, trVars, botVars>>

\* The loop is over: the final chunk and the return.
ChunkFinish ==
  /\ cpc = "loop"
  /\ loop.i >= Len(sentences)
  /\ result' = ChunkReturn(loop, text)
  /\ cpc' = "done"
  /\ UNCHANGED <<text, chunk_size, overlap, sentences, loop, trVars, botVars>>

ChunkNext ==
  AppendChar \/ ComposeLongText \/ ChunkCall \/ ChunkIterate \/ ChunkFinish

SpecChunks == ChunkInit /\ [][ChunkNext]_vars

\* ------------------------------------------------------------ the translation, step by step
\* Longest message text explored by the translation specification.
MaxMsgLen == 6

\* every text of at most n characters
TextsUpTo(n) == UNION {[1..k -> Alphabet] : k \in 0..n}

\* The texts handle_text_message caches, which are the texts the
\* translation is called with: stripped, and passing
\* should_add_translate_button.
MessageTexts(n) ==
  {t \in TextsUpTo(n) : strip(t) = t /\ should_add_translate_button(t)}

TranslateInit ==
  /\ ChunkIdle
  /\ BotIdle
  /\ \E t \in MessageTexts(MaxMsgLen),
        lang \in {<<"en", "uk">>, <<"uk", "en">>} :
       tr = [pc |-> "call", text |-> t, source |-> lang[1], target |-> lang[2],
             chunks |-> <<>>, i |-> 0,
             translated_chunks |-> <<>>, final_translation |-> <<>>]
  /\ calls = <<>>
  /\ outcomes = <<>>

\* The call: the text is chunked with the default sizes.
TranslateCall ==
  /\ tr.pc = "call"
  /\ tr' = [tr EXCEPT
              !.pc = "loop",
              !.chunks = create_context_aware_chunks(
                           tr.text, TRANSLATE_CHUNK_SIZE, CONTEXT_OVERLAP)]
  /\ UNCHANGED <<chunkVars, botVars, calls, outcomes>>

\* An iteration up to the translate call: a blank chunk is skipped, any
\* other is handed to the translator.
TranslateDispatch ==
  /\ tr.pc = "loop"
  /\ tr.i < Len(tr.chunks)
  /\ LET chunk == tr.chunks[tr.i + 1]
     IN IF strip(chunk) = <<>>
        THEN /\ tr' = [tr EXCEPT !.i = tr.i + 1]
             /\ UNCHANGED calls
        ELSE /\ tr' = [tr EXCEPT !.pc = "translating"]
             /\ calls' = Append(calls, [index |-> tr.i, arg |-> strip(chunk)])
  /\ UNCHANGED <<chunkVars, botVars, outcomes>>

\* The translate call is over, one way or another; its outcome is recorded.
TranslateRecord ==
  /\ tr.pc = "translating"
  /\ \E o \in Outcomes :
       /\ tr' = RecordOutcome(tr, o)
       /\ outcomes' = Append(outcomes, o)
  /\ UNCHANGED <<chunkVars, botVars, calls>>

\* After the loop: the join, the clean-up and the return.
TranslateReturn ==
  /\ tr.pc = "loop"
  /\ tr.i >= Len(tr.chunks)
  /\ tr' = [tr EXCEPT
              !.pc = "done",
              !.final_translation = FinalTranslation(tr.translated_chunks, tr.text)]
  /\ UNCHANGED <<chunkVars, botVars, calls, outcomes>>

TranslateNext ==
  TranslateCall \/ TranslateDispatch \/ TranslateRecord \/ TranslateReturn

SpecTranslate == TranslateInit /\ [][TranslateNext]_vars

\* ------------------------------------------------------------ the bot
\* Messages per chat.
MaxMsgs == 1
\* handle_translate_callback invocations awaiting their translation at once.
MaxInFlight == 2
\* Messages in the cache, all chats together.
MaxCached == 1

\* The texts users send: one too short for a button, and one of a
\* Ukrainian and a longer English word with a trailing space.
SampleTexts ==
  { <<"a", "a">>,
    <<"c", " ", "a", "a", ".", " ">> }

\* Callback data that no button of this code carries but the webhook, which
\* takes any update posted to it, delivers all the same: the three kinds
\* of request with a direction of one word, and one with no message id.
ForeignData ==
  { TranslatePrefix \o <<"1", "_", "e", "n">>,
    TranslatePrefix \o <<"x", "_", "e", "n">>,
    ShowOriginalPrefix \o <<"1", "_", "e", "n">>,
    ShowTranslationPrefix \o <<"1", "_", "e", "n">> }

\* d with key k set to v
DictSet(d, k, v) ==
  [x \in DOMAIN d \cup {k} |-> IF x = k THEN v ELSE d[x]]

\* ModeOf answering with the default whatever the store holds.
ModeOfDefault(chat_id) == MODE_AUTO

\* chat_modes.get(chat_id, MODE_AUTO)
ModeOf(chat_id) ==
  IF chat_id \in DOMAIN chat_modes THEN chat_modes[chat_id] ELSE MODE_AUTO

\* s without its k-th element
RemoveAt(s, k) == SubSeq(s, 1, k - 1) \o SubSeq(s, k + 1, Len(s))

\* The callback queries a chat can send: a click on a button on display,
\* which carries that button's data, or foreign data on one of the bot's
\* messages.  button is the key of the bot message the query is about.
Queries(chat_id) ==
  UNION {{[button |-> b, data |-> d] :
            d \in {markup[b].callback_data} \cup ForeignData} :
         b \in {k \in DOMAIN markup : k[1] = chat_id}}

OwnQuery(q) == q.data = markup[q.button].callback_data

\* HoldsLoop for a handler that calls enhanced_translate_with_context
\* itself instead of awaiting it in the executor.
HoldsLoopWhileTranslating(task) == task.pc \in {"submitted", "detached"}

\* An invocation of handle_translate_callback keeps the bot's event loop
\* only while it runs; one that awaits the executor, or whose translation
\* has returned and that waits to be resumed, has given the loop back.
HoldsLoop(task) == task.pc \notin {"submitted", "detached", "returned"}

\* The event loop can run a handler.
LoopFree == \A k \in 1..Len(tasks) : ~HoldsLoop(tasks[k])

\* /start: the chat's mode is set to auto, and the welcome text sent
start_cmd(chat_id) ==
  /\ LoopFree
  /\ chat_modes' = DictSet(chat_modes, chat_id, MODE_AUTO)
  /\ UNCHANGED <<chunkVars, trVars, message_cache, markup, next_id, tasks>>

\* /auto
auto_cmd(chat_id) ==
  /\ LoopFree
  /\ chat_modes' = DictSet(chat_modes, chat_id, MODE_AUTO)
  /\ UNCHANGED <<chunkVars, trVars, message_cache, markup, next_id, tasks>>

\* /to_en
to_en_cmd(chat_id) ==
  /\ LoopFree
  /\ chat_modes' = DictSet(chat_modes, chat_id, MODE_TO_EN)
  /\ UNCHANGED <<chunkVars, trVars, message_cache, markup, next_id, tasks>>

\* /to_uk
to_uk_cmd(chat_id) ==
  /\ LoopFree
  /\ chat_modes' = DictSet(chat_modes, chat_id, MODE_TO_UK)
  /\ UNCHANGED <<chunkVars, trVars, message_cache, markup, next_id, tasks>>

\* DetermineDirection detecting the language whatever the mode is.
DetermineDirectionDetects(mode, t) == detect_direction(t)

\* "Determine translation direction": detection in auto mode, the forced
\* mode otherwise
DetermineDirection(mode, t) ==
  IF mode = MODE_AUTO THEN detect_direction(t) ELSE mode

\* A text message arrives: it is cached and gets its translate button,
\* unless it is a command or should_add_translate_button refuses it.
handle_text_message(chat_id, message_text) ==
    /\ LoopFree
    /\ next_id[chat_id] <= MaxMsgs
    /\ next_id' = [next_id EXCEPT ![chat_id] = @ + 1]
    /\ LET t == strip(message_text)
           message_id == next_id[chat_id]
           cache_key == <<chat_id, message_id>>
           mode == ModeOf(chat_id)
           direction == DetermineDirection(mode, t)
       IN IF StartsWithSlash(t) \/ ~should_add_translate_button(t)
          THEN UNCHANGED <<message_cache, markup>>
          ELSE /\ Cardinality(DOMAIN message_cache) < MaxCached
               /\ message_cache' =
                    DictSet(message_cache, cache_key,
                            [original_text |-> t,
                             translated_text |-> <<>>,
                             direction |-> direction,
                             state |-> "original"])
               /\ markup' = DictSet(markup, cache_key,
                                    create_translate_button(message_id, direction))
    /\ UNCHANGED <<chunkVars, trVars, chat_modes, tasks>>

\* handle_translate_callback up to the await of the executor: the data is
\* read and the message looked up; each early return answers the query and
\* changes nothing; otherwise the translation is handed to the executor.
BeginTranslate(chat_id, q) ==
      /\ LoopFree
      /\ StartsWith(q.data, TranslatePrefix)
      /\ LET rq == TranslateRequest(q.data)
             cache_key == <<chat_id, rq.message_id>>
         IN IF rq.status # "ok" \/ cache_key \notin DOMAIN message_cache
            THEN UNCHANGED tasks
            ELSE /\ Len(tasks) < MaxInFlight
                 /\ tasks' = Append(tasks,
                      [pc |-> "submitted",
                       chat_id |-> chat_id,
                       button |-> q.button,
                       message_id |-> rq.message_id,
                       direction |-> rq.direction,
                       original_text |-> message_cache[cache_key].original_text,
                       outs |-> <<>>,
                       translated_text |-> <<>>])
      /\ UNCHANGED <<chunkVars, trVars, chat_modes, message_cache, markup, next_id>>

\* The executor thread runs enhanced_translate_with_context for one of the
\* waiting invocations; each translate call it makes ends in some way.
RunTranslation(k) ==
    /\ tasks[k].pc \in {"submitted", "detached"}
    /\ LET t == tasks[k]
           lang == get_language_info(t.direction)
           n == Len(create_context_aware_chunks(
                      t.original_text, TRANSLATE_CHUNK_SIZE, CONTEXT_OVERLAP))
       IN \E outs \in [1..n -> Outcomes] :
            tasks' = [tasks EXCEPT ![k] =
                        [t EXCEPT !.pc = "returned",
                                  !.outs = outs,
                                  !.translated_text =
                                    enhanced_translate_with_context(
                                      t.original_text, lang.source, lang.target, outs)]]
    /\ UNCHANGED <<chunkVars, trVars, chat_modes, message_cache, markup, next_id>>

\* The webhook request that brought the click stops waiting for the
\* update to be processed (future.result(timeout=0.1) times out) and
\* answers, while the translation is still running: the invocation goes
\* on detached from the request.  (A request still waiting when the
\* translation is back is answered when the handler is over.)
WebhookReturn(k) ==
    /\ tasks[k].pc = "submitted"
    /\ tasks' = [tasks EXCEPT ![k].pc = "detached"]
    /\ UNCHANGED <<chunkVars, trVars, chat_modes, message_cache, markup, next_id>>

\* StoreTranslation putting the translation in the place of the original.
StoreTranslationOverOriginal(cached_msg, translated_text) ==
  [cached_msg EXCEPT !.original_text = translated_text,
                     !.translated_text = translated_text,
                     !.state = "translated"]

\* "Store translation in cache"
StoreTranslation(cached_msg, translated_text) ==
  [cached_msg EXCEPT !.translated_text = translated_text,
                     !.state = "translated"]

\* What a call of the Telegram API can do: return, or raise (a network
\* error; for edit_message_reply_markup also "message is not modified").
ApiOutcomes == {"ok", "raise"}

\* handle_translate_callback after the await: a translation that is empty
\* or equal to the original is answered "Translation failed"; any other is
\* stored, and then shown on the button unless edit_message_reply_markup
\* raises, which the except clause answers "Translation error".
FinishTranslate(k, api) ==
    /\ tasks[k].pc = "returned"
    /\ tasks' = RemoveAt(tasks, k)
    /\ LET t == tasks[k]
           cache_key == <<t.chat_id, t.message_id>>
       IN IF t.translated_text = <<>> \/ t.translated_text = t.original_text
          THEN UNCHANGED <<message_cache, markup>>
          ELSE /\ message_cache' =
                    [message_cache EXCEPT
                       ![cache_key] = StoreTranslation(@, t.translated_text)]
               /\ IF api = "ok"
                  THEN markup' =
                         [markup EXCEPT ![t.button] =
                            create_translated_button(t.original_text, t.translated_text,
                                                     t.message_id, t.direction)]
                  ELSE UNCHANGED markup
    /\ UNCHANGED <<chunkVars, trVars, chat_modes, next_id>>

EndTranslate(k) == \E api \in ApiOutcomes : FinishTranslate(k, api)

\* handle_show_original_callback for one callback query
ShowOriginal(chat_id, q) ==
      /\ LoopFree
      /\ StartsWith(q.data, ShowOriginalPrefix)
      /\ LET rq == ShowRequest(q.data)
             cache_key == <<chat_id, rq.message_id>>
         IN IF rq.status # "ok" \/ cache_key \notin DOMAIN message_cache
            THEN UNCHANGED <<message_cache, markup>>
            ELSE /\ message_cache' =
                      [message_cache EXCEPT ![cache_key].state = "original"]
                 /\ markup' =
                      [markup EXCEPT ![q.button] =
                         create_original_button(
                           message_cache[cache_key].original_text,
                           rq.message_id, rq.direction)]
      /\ UNCHANGED <<chunkVars, trVars, chat_modes, next_id, tasks>>

\* TranslationAvailable without the test.
TranslationAvailableAlways(cached_msg) == TRUE

\* the test "if not translated_text" of handle_show_translation_callback
TranslationAvailable(cached_msg) == cached_msg.translated_text # <<>>

\* handle_show_translation_callback for one callback query
ShowTranslation(chat_id, q) ==
      /\ LoopFree
      /\ StartsWith(q.data, ShowTranslationPrefix)
      /\ LET rq == ShowRequest(q.data)
             cache_key == <<chat_id, rq.message_id>>
         IN IF \/ rq.status # "ok"
               \/ cache_key \notin DOMAIN message_cache
               \/ ~TranslationAvailable(message_cache[cache_key])
            THEN UNCHANGED <<message_cache, markup>>
            ELSE /\ message_cache' =
                      [message_cache EXCEPT ![cache_key].state = "translated"]
                 /\ markup' =
                      [markup EXCEPT ![q.button] =
                         create_translated_button(
                           message_cache[cache_key].original_text,
                           message_cache[cache_key].translated_text,
                           rq.message_id, rq.direction)]
      /\ UNCHANGED <<chunkVars, trVars, chat_modes, next_id, tasks>>

Init == ChunkIdle /\ TranslateIdle /\ BotIdle

handle_translate_callback_begin ==
  \E chat_id \in Chats : \E q \in Queries(chat_id) : BeginTranslate(chat_id, q)

executor_run == \E k \in 1..Len(tasks) : RunTranslation(k)

handle_translate_callback_end == \E k \in 1..Len(tasks) : EndTranslate(k)

webhook == \E k \in 1..Len(tasks) : WebhookReturn(k)

handle_show_original_callback ==
  \E chat_id \in Chats : \E q \in Queries(chat_id) : ShowOriginal(chat_id, q)

handle_show_translation_callback ==
  \E chat_id \in Chats : \E q \in Queries(chat_id) : ShowTranslation(chat_id, q)

Next ==
  \/ \E chat_id \in Chats : start_cmd(chat_id)
  \/ \E chat_id \in Chats : auto_cmd(chat_id)
  \/ \E chat_id \in Chats : to_en_cmd(chat_id)
  \/ \E chat_id \in Chats : to_uk_cmd(chat_id)
  \/ \E chat_id \in Chats, message_text \in SampleTexts :
       handle_text_message(chat_id, message_text)
  \/ handle_translate_callback_begin
  \/ executor_run
  \/ handle_translate_callback_end
  \/ webhook
  \/ handle_show_original_callback
  \/ handle_show_translation_callback

Spec == Init /\ [][Next]_vars

\* ------------------------------------------------------------ properties of the chunker
\* s is a prefix of t
IsPrefix(s, t) == Len(s) <= Len(t) /\ SubSeq(t, 1, Len(s)) = s

\* s occurs in t as a contiguous run
IsInfix(s, t) ==
  \E k \in 0..(Len(t) - Len(s)) : SubSeq(t, k + 1, k + Len(s)) = s

\* the white-space-delimited words of s, in order
RECURSIVE Words(_)
Words(s) ==
  LET t == lstrip(s)
  IN IF t = <<>> THEN <<>>
     ELSE LET n == CHOOSE k \in 1..Len(t) :
                     /\ \A m \in 1..k : t[m] \notin Whitespace
                     /\ (k = Len(t) \/ t[k+1] \in Whitespace)
          IN <<SubSeq(t, 1, n)>> \o Words(SubSeq(t, n + 1, Len(t)))

\* t is the chunks cs in order with white space (and nothing else) put
\* back before, between and after them
RECURSIVE Covers(_, _)
Covers(cs, t) ==
  \/ cs = <<>> /\ strip(t) = <<>>
  \/ /\ cs # <<>>
     /\ IsPrefix(Head(cs), t)
     /\ Covers(Tail(cs), SubSeq(t, Len(Head(cs)) + 1, Len(t)))
  \/ /\ t # <<>>
     /\ Head(t) \in Whitespace
     /\ Covers(cs, Tail(t))

\* C1: lossless chunking.  The chunks returned for a text, concatenated in
\* order with the removed white-space separators put back, are the text:
\* no character is lost and none is duplicated.
C1_LosslessChunking ==
  cpc = "done" => Covers(result, text)

\* C2: size bound.  Every returned chunk is at most chunk_size long, except
\* a chunk that is one single white-space-free token.
C2_SizeBound ==
  cpc = "done" =>
    \A k \in 1..Len(result) :
      \/ Len(result[k]) <= chunk_size
      \/ \A m \in 1..Len(result[k]) : result[k][m] \notin Whitespace

\* C2 on the texts the handlers pass on: stripped and not empty.
C2_SizeBoundOfMessages ==
  (text # <<>> /\ strip(text) = text) => C2_SizeBound

\* the context put in front of the chunk the last iteration started
Context == strip(loop.temp_overlap)

\* C10: context boundedness.  Whenever an iteration starts a new chunk, the
\* context it prepends is at most overlap long and is made of whole words
\* of the text: the words that come right before the current sentence's.
C10_ContextBounded ==
  (cpc = "loop" /\ loop.flushed) =>
    /\ Len(Context) <= overlap
    /\ IsInfix(Words(Context) \o Words(sentences[loop.i]), Words(text))

\* C10's case: a new chunk starts with a non-empty context, as long as the
\* loop test lets it be.
C10_Witness ==
  /\ cpc = "loop" /\ loop.flushed
  /\ Context # <<>>
  /\ Len(Context) = overlap - 1

\* C13: a short text is returned as it is.  For a text no longer than
\* chunk_size the list returned has one element, the text unchanged.
C13_ShortTextUnchanged ==
  (cpc = "done" /\ Len(text) <= chunk_size) => result = <<text>>

\* C13's case: a short text with white space around it has been returned.
C13_Witness ==
  /\ cpc = "done"
  /\ Len(text) <= chunk_size
  /\ strip(text) # text
  /\ strip(text) # <<>>

\* s is one word: not empty, no white space in it
IsOneWord(s) == s # <<>> /\ \A k \in 1..Len(s) : s[k] \notin Whitespace

\* C14: the oversized-token exception.  For a text that is one single word
\* longer than chunk_size the call returns one chunk, the whole word.
C14_OversizedWordKept ==
  (cpc = "done" /\ IsOneWord(text) /\ Len(text) > chunk_size) =>
    result = <<text>>

\* C14's case: the call has returned for a word at least twice as long as
\* chunk_size, through the loop.
C14_Witness ==
  /\ cpc = "done"
  /\ IsOneWord(text)
  /\ Len(text) >= 2 * chunk_size
  /\ loop.i = 1

\* the last white-space-delimited word of s
LastWord(s) == Words(s)[Len(Words(s))]

\* the chunk the last iteration finalized
PreviousChunk == loop.chunks[Len(loop.chunks)]

\* C11: chunk sequencing.  Every chunk after the first carries a non-empty
\* context taken from the tail of the chunk before it: when no whole
\* sentence fits within overlap, the last words of that chunk that do.  So
\* whenever an iteration starts a new chunk and the last word of the chunk
\* it finalized is no longer than overlap, the new chunk has a context.
C11_LaterChunksCarryContext ==
  (/\ cpc = "loop" /\ loop.flushed
   /\ Len(LastWord(PreviousChunk)) <= overlap) =>
    Context # <<>>


\* ------------------------------------------------------------ properties of the translation
\* the number of characters of s that are not white space
NonSpaceCount(s) == Cardinality({k \in 1..Len(s) : s[k] \notin Whitespace})

\* the number of chunks that are not blank
NonBlankCount(chunks) ==
  Cardinality({k \in 1..Len(chunks) : strip(chunks[k]) # <<>>})

Failed(o) == o \in {"raise", "empty"}

\* the texts of tc in order, a space between two of them
RECURSIVE SpaceJoined(_)
SpaceJoined(tc) ==
  IF tc = <<>> THEN <<>>
  ELSE IF Len(tc) = 1 THEN Head(tc)
  ELSE Head(tc) \o <<" ">> \o SpaceJoined(Tail(tc))

\* C3: fail-open translation.  When the translate call fails for every
\* chunk, the text returned is the input text with its white space
\* normalised, whatever the number of chunks.
C3_FailOpen ==
  (tr.pc = "done" /\ \A k \in 1..Len(outcomes) : Failed(outcomes[k])) =>
    tr.final_translation = strip(CollapseSpaces(tr.text))

\* C4: a failure is recovered where it happens.  The outcome recorded for a
\* chunk whose translate call raised or returned nothing is the chunk's own
\* text; no outcome is empty; the loop goes on to the chunks after it, so
\* that when it ends every non-blank chunk was handed to the translator and
\* has its outcome, and the call returns a text.
C4_FailureRecoveredLocally ==
  /\ Len(tr.translated_chunks) = Len(outcomes)
  /\ \A k \in 1..Len(outcomes) :
       /\ tr.translated_chunks[k] # <<>>
       /\ Failed(outcomes[k]) =>
            tr.translated_chunks[k] = tr.chunks[calls[k].index + 1]
  /\ tr.pc = "done" =>
       /\ Len(calls) = NonBlankCount(tr.chunks)
       /\ Len(tr.translated_chunks) = NonBlankCount(tr.chunks)
       /\ tr.final_translation # <<>>

\* C4's case: the first of several chunks failed and the call went on to
\* the end.
C4_Witness ==
  /\ tr.pc = "done"
  /\ Len(outcomes) >= 2
  /\ outcomes[1] = "raise"
  /\ outcomes[2] = "empty"

\* C5: one translate call per chunk, in index order; a chunk is handed to
\* the translator only when the outcome of the one before is recorded; the
\* outcomes are joined in index order.
C5_SequentialDispatch ==
  /\ \A k \in 1..Len(calls) :
       /\ calls[k].index = k - 1
       /\ calls[k].arg = strip(tr.chunks[k])
  /\ Len(calls) = Len(tr.translated_chunks)
                    + (IF tr.pc = "translating" THEN 1 ELSE 0)
  /\ tr.pc = "done" =>
       /\ Len(calls) = Len(tr.chunks)
       /\ tr.final_translation =
            strip(CollapseSpaces(SpaceJoined(tr.translated_chunks)))

\* C5's case: a call that made several translate calls, one of which
\* raised, has returned.
C5_Witness ==
  /\ tr.pc = "done"
  /\ Len(calls) >= 2
  /\ \E k \in 1..Len(outcomes) : outcomes[k] = "raise"
  /\ \E k \in 1..Len(outcomes) : outcomes[k] = "translated"

\* C6: leading context is not new content.  The context put in front of a
\* chunk is taken out of what the translator returns for it, so the text
\* returned holds no more than the source does: the backend keeps the
\* number of characters that are not white space, a fallback keeps the
\* chunk.
C6_ContextExcised ==
  tr.pc = "done" =>
    NonSpaceCount(tr.final_translation) <= NonSpaceCount(tr.text)

\* the places where a white-space run of s starts
RunStarts(s) ==
  {p \in 1..Len(s) : s[p] \in Whitespace /\ (p = 1 \/ s[p-1] \notin Whitespace)}

\* the white-space run of s that starts at p is a paragraph separator: it
\* holds two consecutive newlines
IsParagraphBreak(s, p) ==
  \E k \in p..(RunEnd(s, p) - 1) : s[k] = "\n" /\ s[k+1] = "\n"

\* the number of paragraph breaks of s
ParagraphBreaks(s) == Cardinality({p \in RunStarts(s) : IsParagraphBreak(s, p)})

\* C12: reassembly preserves paragraph structure.  The outcomes are joined
\* with a paragraph separator at every chunk boundary that was a paragraph
\* break in the source.  The chunker cuts at white space only, so in a text
\* whose every white-space run is a paragraph break every chunk boundary is
\* one, and the text returned has one paragraph break per chunk boundary.
C12_ParagraphsPreserved ==
  (/\ tr.pc = "done"
   /\ \A p \in RunStarts(tr.text) : IsParagraphBreak(tr.text, p)) =>
    ParagraphBreaks(tr.final_translation) = Len(tr.chunks) - 1


\* ------------------------------------------------------------ properties of the buttons
\* the message id of a cache key
MessageIdOf(cache_key) == cache_key[2]

\* C7: the translate button works.  The callback data create_translate_button
\* makes for a cached message and its direction is accepted by
\* handle_translate_callback and read back as that message id and that
\* direction; and a click whose translation is not empty and differs from
\* the original leaves the entry with that translation and in state
\* 'translated'.
C7_TranslateButtonWorks ==
  [][/\ \A key \in DOMAIN message_cache :
          LET button == create_translate_button(
                          MessageIdOf(key), message_cache[key].direction)
              rq == TranslateRequest(button.callback_data)
          IN /\ rq.status = "ok"
             /\ rq.message_id = MessageIdOf(key)
             /\ rq.direction = message_cache[key].direction
     /\ \A k \in 1..Len(tasks) :
          (/\ EndTranslate(k)
           /\ tasks[k].translated_text # <<>>
           /\ tasks[k].translated_text # tasks[k].original_text) =>
            LET entry == message_cache'[<<tasks[k].chat_id, tasks[k].message_id>>]
            IN /\ entry.translated_text = tasks[k].translated_text
               /\ entry.state = "translated"]_vars

\* the entry a show request is about
ShownEntry(chat_id, q) == <<chat_id, ShowRequest(q.data).message_id>>

\* C8: the toggle works.  For a cached message and its direction, the data
\* create_translated_button makes is accepted by
\* handle_show_original_callback and the data create_original_button makes
\* is accepted by handle_show_translation_callback, each read back as that
\* message id and direction; a click on the button of a translated message
\* sets the entry's state to 'original' and a click on the button that
\* follows sets it back to 'translated'.
C8_ToggleWorks ==
  [][/\ \A key \in DOMAIN message_cache :
          LET entry == message_cache[key]
              shown == create_translated_button(
                         entry.original_text, entry.translated_text,
                         MessageIdOf(key), entry.direction)
              hidden == create_original_button(
                          entry.original_text, MessageIdOf(key), entry.direction)
          IN \A rq \in {ShowRequest(shown.callback_data),
                        ShowRequest(hidden.callback_data)} :
               /\ rq.status = "ok"
               /\ rq.message_id = MessageIdOf(key)
               /\ rq.direction = entry.direction
     /\ \A chat_id \in Chats : \A q \in Queries(chat_id) :
          /\ (/\ OwnQuery(q)
              /\ markup[q.button].label = "translated"
              /\ ShowOriginal(chat_id, q)) =>
               /\ message_cache'[ShownEntry(chat_id, q)].state = "original"
               /\ markup'[q.button].label = "original"
          /\ (/\ OwnQuery(q)
              /\ markup[q.button].label = "original"
              /\ ShowTranslation(chat_id, q)) =>
               /\ message_cache'[ShownEntry(chat_id, q)].state = "translated"
               /\ markup'[q.button].label = "translated"]_vars

\* every translate call of the invocation failed
AllFailed(outs) == \A k \in 1..Len(outs) : Failed(outs[k])

\* C9: translation is best effort.  A translate click whose every chunk
\* failed to translate ends with the user's own text on the button, not
\* with the request turned down.
C9_OriginalTextDelivered ==
  [][\A k \in 1..Len(tasks) :
       (EndTranslate(k) /\ AllFailed(tasks[k].outs)) =>
         /\ markup'[tasks[k].button].label # "translate"
         /\ markup'[tasks[k].button].display_text =
              truncate_for_button(tasks[k].original_text)]_vars

\* ------------------------------------------------------------ properties of the event loop
\* the invocation waits for its translation
Translating(task) == task.pc \in {"submitted", "detached"}

ModeCommand ==
  \E chat_id \in Chats :
    start_cmd(chat_id) \/ auto_cmd(chat_id) \/ to_en_cmd(chat_id) \/ to_uk_cmd(chat_id)

\* a step of the worker thread: the translation of an invocation returns
WorkerStep ==
  /\ Len(tasks') = Len(tasks)
  /\ \E k \in 1..Len(tasks) : Translating(tasks[k]) /\ tasks'[k].pc = "returned"

\* the mode in force in a chat: the default, or what the last command wrote
StoredMode(chat_id) ==
  IF chat_id \in DOMAIN chat_modes THEN chat_modes[chat_id] ELSE MODE_AUTO

CyrillicCount(s) == Cardinality({k \in 1..Len(s) : s[k] \in Cyrillic})
LatinCount(s) ==
  Cardinality({k \in 1..Len(s) : s[k] \in UpperAscii \cup LowerAscii})

\* the direction a majority vote of the letters gives
MajorityDirection(t) ==
  IF CyrillicCount(t) > LatinCount(t) THEN MODE_TO_EN ELSE MODE_TO_UK

\* C17: in auto mode the direction is a majority vote.  A message received
\* while its chat is in auto mode gets the direction Ukrainian -> English
\* exactly when its Cyrillic letters outnumber its Latin letters, and
\* English -> Ukrainian otherwise.
C17_MajorityVote ==
  [][\A chat_id \in Chats : \A message_text \in SampleTexts :
       (/\ handle_text_message(chat_id, message_text)
        /\ StoredMode(chat_id) = MODE_AUTO
        /\ <<chat_id, next_id[chat_id]>> \in DOMAIN message_cache') =>
         message_cache'[<<chat_id, next_id[chat_id]>>].direction =
           MajorityDirection(strip(message_text))]_vars

\* ------------------------------------------------------------ properties of the cache
\* C18: the cache entries are well formed in every reachable state,
\* whatever the interleaving of the handlers and however many translate
\* clicks on a message overlap: the state of an entry is 'original' or
\* 'translated', and an entry in state 'translated' has a translation.
C18_EntriesWellFormed ==
  \A key \in DOMAIN message_cache :
    /\ message_cache[key].state \in {"original", "translated"}
    /\ message_cache[key].state = "translated" =>
         message_cache[key].translated_text # <<>>

\* C18's case: two translate clicks on the same message are in flight
\* together, one with its translation back, while the entry is in state
\* 'original' with a translation stored: a click before them was shown and
\* hidden again.
C18_Witness ==
  /\ Len(tasks) = 2
  /\ tasks[1].chat_id = tasks[2].chat_id
  /\ tasks[1].message_id = tasks[2].message_id
  /\ Translating(tasks[1])
  /\ tasks[2].pc = "returned"
  /\ LET key == <<tasks[1].chat_id, tasks[1].message_id>>
     IN /\ message_cache[key].state = "original"
        /\ message_cache[key].translated_text # <<>>

\* the translate request of q is turned down: its data is rejected or its
\* message is not in the cache
TurnedDown(chat_id, q) ==
  LET rq == TranslateRequest(q.data)
  IN rq.status # "ok" \/ <<chat_id, rq.message_id>> \notin DOMAIN message_cache

\* C19: a failed translate click changes nothing.  A click whose data is
\* rejected or whose message is not cached, a click whose translation comes
\* back empty or equal to the original, and a click whose handler raises
\* all leave message_cache exactly as it was.
C19_FailedClickChangesNothing ==
  [][/\ \A chat_id \in Chats : \A q \in Queries(chat_id) :
          (BeginTranslate(chat_id, q) /\ TurnedDown(chat_id, q)) =>
            UNCHANGED message_cache
     /\ \A k \in 1..Len(tasks) : \A api \in ApiOutcomes :
          (/\ FinishTranslate(k, api)
           /\ \/ tasks[k].translated_text = <<>>
              \/ tasks[k].translated_text = tasks[k].original_text
              \/ api = "raise") =>
            UNCHANGED message_cache]_vars

\* C20: the frame of the cache.  Every step keeps every cache entry's
\* original_text and direction and removes no entry; and a step that adds
\* an entry is a step of handle_text_message for a message that passes
\* should_add_translate_button, adding the entry of that message alone.
C20_CacheFrame ==
  [][/\ \A key \in DOMAIN message_cache :
          /\ key \in DOMAIN message_cache'
          /\ message_cache'[key].original_text = message_cache[key].original_text
          /\ message_cache'[key].direction = message_cache[key].direction
     /\ DOMAIN message_cache' # DOMAIN message_cache =>
          \E chat_id \in Chats : \E message_text \in SampleTexts :
            /\ handle_text_message(chat_id, message_text)
            /\ should_add_translate_button(strip(message_text))
            /\ DOMAIN message_cache' =
                 DOMAIN message_cache \cup {<<chat_id, next_id[chat_id]>>}]_vars

\* C20's case: an entry has been translated and set back to its original,
\* a command has since put its chat in another mode than the entry's
\* direction, and the other chat has sent a message that was not cached.
C20_Witness ==
  \E key \in DOMAIN message_cache :
    /\ message_cache[key].translated_text # <<>>
    /\ message_cache[key].state = "original"
    /\ message_cache[key].direction = MODE_TO_EN
    /\ StoredMode(key[1]) = MODE_TO_UK
    /\ \E other \in Chats \ {key[1]} : next_id[other] > 1

\* ------------------------------------------------------------ properties of the issued buttons
\* the data handle_text_message puts on the button of a message
IssuedData(message_id, direction) ==
  TranslatePrefix \o IntToStr(message_id) \o <<"_">> \o direction

\* C21: the direction of a message is fixed when the message is received.
\* A step that caches a message gives it the direction of its chat's mode
\* at that moment (detection in auto mode, the forced mode otherwise) and
\* puts that direction in the data of its button; as long as the translate
\* button is on display its data is the one issued, with the entry's
\* direction; and a step that changes chat_modes changes the entry of one
\* chat only and leaves the cache, the buttons, what a click on each button
\* is read as, and the invocations in flight as they were.
C21_DirectionFixedAtReceipt ==
  [][/\ \A key \in DOMAIN message_cache' \ DOMAIN message_cache :
          LET direction ==
                IF StoredMode(key[1]) = MODE_AUTO
                THEN detect_direction(message_cache'[key].original_text)
                ELSE StoredMode(key[1])
          IN /\ message_cache'[key].direction = direction
             /\ key \in DOMAIN markup'
             /\ markup'[key].label = "translate"
             /\ markup'[key].callback_data = IssuedData(key[2], direction)
     /\ \A key \in DOMAIN markup :
          markup[key].label = "translate" =>
            /\ markup[key].callback_data =
                 IssuedData(key[2], message_cache[key].direction)
            /\ markup'[key].label = "translate" => markup'[key] = markup[key]
     /\ chat_modes' # chat_modes =>
          /\ \E chat_id \in Chats :
               \A other \in Chats \ {chat_id} :
                 /\ other \in DOMAIN chat_modes' <=> other \in DOMAIN chat_modes
                 /\ other \in DOMAIN chat_modes =>
                      chat_modes'[other] = chat_modes[other]
          /\ UNCHANGED <<message_cache, markup, tasks>>
          /\ \A key \in DOMAIN markup :
               TranslateRequest(markup'[key].callback_data) =
                 TranslateRequest(markup[key].callback_data)]_vars

\* C21's case: a message received while its chat was forced to English ->
\* Ukrainian, although its text has a Cyrillic letter, still shows the
\* button issued with that direction after a command has put the chat in
\* the opposite mode; the other chat has never had a mode stored.
C21_Witness ==
  \E key \in DOMAIN markup :
    /\ markup[key].label = "translate"
    /\ detect_direction(message_cache[key].original_text) = MODE_TO_EN
    /\ message_cache[key].direction = MODE_TO_UK
    /\ markup[key].callback_data = IssuedData(key[2], MODE_TO_UK)
    /\ StoredMode(key[1]) = MODE_TO_EN
    /\ \E other \in Chats \ {key[1]} : other \notin DOMAIN chat_modes

\* ------------------------------------------------------------ properties of the sentences in the chunks
\* s ends t
IsSuffix(s, t) ==
  Len(s) <= Len(t) /\ SubSeq(t, Len(t) - Len(s) + 1, Len(t)) = s

\* the chunks of cs that s appears in
Occurrences(s, cs) == {k \in 1..Len(cs) : IsInfix(s, cs[k])}

\* the first of them
FirstOccurrence(s, cs) ==
  CHOOSE k \in Occurrences(s, cs) : \A m \in Occurrences(s, cs) : k <= m

\* the sentences without the white space around them
StrippedSentences(ss) == [k \in 1..Len(ss) |-> strip(ss[k])]

\* The chunks cs take the sentences ss in order: each chunk ends with the
\* next one or more sentences, a space between two of them, whatever it
\* repeats before them; and no sentence is left over.
RECURSIVE TakenInOrder(_, _)
TakenInOrder(cs, ss) ==
  IF cs = <<>> THEN ss = <<>>
  ELSE \E n \in 1..Len(ss) :
         /\ IsSuffix(SpaceJoined(SubSeq(ss, 1, n)), Head(cs))
         /\ TakenInOrder(Tail(cs), SubSeq(ss, n + 1, Len(ss)))

\* a chunk is flushed only when it is not empty
FlushedNonEmpty == (cpc = "loop" /\ loop.flushed) => PreviousChunk # <<>>

\* the returned list is not empty and holds no empty chunk
NoEmptyChunk == result # <<>> /\ \A k \in 1..Len(result) : result[k] # <<>>

\* the call has returned for a text longer than chunk_size
LongTextDone == cpc = "done" /\ Len(text) > chunk_size

\* C22 as stated, on the texts the handlers pass on (stripped and not
\* empty) when they are longer than chunk_size: every sentence of
\* enhanced_sentence_split appears in at least one returned chunk, the
\* first chunks the sentences appear in are in the order of the sentences,
\* a chunk is flushed only when it is not empty, and the returned list is
\* not empty and holds no empty chunk.
C22_SentencesInSourceOrder ==
  /\ FlushedNonEmpty
  /\ (LongTextDone /\ strip(text) = text) =>
       /\ NoEmptyChunk
       /\ \A k \in 1..Len(sentences) : Occurrences(sentences[k], result) # {}
       /\ \A k \in 1..Len(sentences) : \A m \in k..Len(sentences) :
            FirstOccurrence(sentences[k], result) <=
              FirstOccurrence(sentences[m], result)

\* C22 amended: for any text longer than chunk_size, every sentence of
\* enhanced_sentence_split, stripped of the white space around it, appears
\* in at least one returned chunk; the chunks take the sentences in source
\* order, each chunk ending with the next one or more sentences after
\* whatever it repeats; a chunk is flushed only when it is not empty; and
\* the returned list is not empty and holds no empty chunk.
C22_SentencesTakenInOrder ==
  /\ FlushedNonEmpty
  /\ LongTextDone =>
       /\ NoEmptyChunk
       /\ \A k \in 1..Len(sentences) :
            Occurrences(strip(sentences[k]), result) # {}
       /\ TakenInOrder(result, StrippedSentences(sentences))

\* C22's case: the call has returned three chunks for three sentences,
\* the third chunk repeating the second sentence before its own, and the
\* third sentence is found in an earlier chunk than the second is.
C22_Witness ==
  /\ LongTextDone
  /\ Len(sentences) = 3 /\ Len(result) = 3
  /\ result[3] = sentences[2] \o <<" ">> \o sentences[3]
  /\ FirstOccurrence(sentences[3], result) < FirstOccurrence(sentences[2], result)

====
